---- MODULE Spec2Model ----
(***************************************************************************)
(* Gallery Explorer (src/src/App.tsx).  The file holds two variants of the *)
(* App component: the multi-page variant (lines 1-214: TOTAL_PAGES         *)
(* concurrent page requests joined by Promise.all, deduplication by id,    *)
(* decades below 20 works dropped) and the single-page variant (lines      *)
(* 216-369: one request, no deduplication, every decade kept).             *)
(* The model covers the load task, the decade list (useMemo), the clamp    *)
(* effect and the timeline slider of both variants.                        *)
(***************************************************************************)
EXTENDS Integers, Sequences, FiniteSets, TLC

(***************************************************************************)
(* Program constants.                                                      *)
(***************************************************************************)
PAGE_LIMIT == 100

TOTAL_PAGES == 10

MIN_DECADE_SIZE == 20

(***************************************************************************)
(* Bounds of the model.                                                    *)
(***************************************************************************)
\* rows of each generated decade block on one page of the multi-page feed
MaxPerPage == 2

\* length of the page served to the single-page variant
MaxLen == 3

\* page requests that may fail during one load
MaxFailures == 2

Variants == {"multi", "single"}

\* HTTP statuses of a response that is not ok
FailStatuses == {404, 500}

(***************************************************************************)
(* Artwork records.  An optional field that is absent from the JSON is a   *)
(* field absent from the record.                                           *)
(***************************************************************************)
Artwork(i, t, d) == [id |-> i, title |-> t, date_start |-> d]

Undated(i, t) == [id |-> i, title |-> t]

Untitled(i, d) == [id |-> i, date_start |-> d]

\* truthiness of item.id, item.title, item.date_start
TruthyId(item) == "id" \in DOMAIN item /\ item.id # 0

TruthyTitle(item) == "title" \in DOMAIN item /\ item.title # ""

TruthyDateStart(item) == "date_start" \in DOMAIN item /\ item.date_start # 0

\* typeof artwork.date_start === 'number'
IsNumber(item) == "date_start" \in DOMAIN item

\* a.date_start ?? 0
DateOrZero(item) == IF "date_start" \in DOMAIN item THEN item.date_start ELSE 0

Min(a, b) == IF a < b THEN a ELSE b

(***************************************************************************)
(* Sequences.  The loops of the source run over up to a thousand records;  *)
(* they are written here by position, which gives the value the loop       *)
(* computes without a recursion as deep as the array is long.              *)
(***************************************************************************)
Indices(s) == [i \in 1..Len(s) |-> i]

Pick(s, at) == [k \in 1..Len(at) |-> s[at[k]]]

\* Array.prototype.sort with a comparator key(a) - key(b), keys[i] being the
\* key of s[i]: ascending, and stable, so an element goes after the smaller
\* ones and after the equal ones that precede it in s
SortBy(s, keys) ==
  LET Pos(i) == Cardinality({j \in 1..Len(s) : keys[j] < keys[i]})
                  + Cardinality({j \in 1..i : keys[j] = keys[i]})
  IN  [r \in 1..Len(s) |-> s[CHOOSE i \in 1..Len(s) : Pos(i) = r]]

(***************************************************************************)
(* Aggregator: pages.flat(), the Map keyed by id, the filter.              *)
(***************************************************************************)
RECURSIVE FlatFrom(_, _)
FlatFrom(results, i) ==
  IF i > Len(results) THEN <<>> ELSE results[i] \o FlatFrom(results, i + 1)

\* a merge that puts each page in front of the pages merged before it
RECURSIVE FlatBackwards(_)
FlatBackwards(results) ==
  IF results = <<>> THEN <<>>
  ELSE results[Len(results)] \o FlatBackwards(SubSeq(results, 1, Len(results) - 1))

\* pages.flat(): page 1 in its order, then page 2, ...
Flat(results) == FlatFrom(results, 1)

\* deduped.has(merged[i].id) when the forEach reaches position i: an earlier
\* item was set under that id
SeenBefore(merged, i) ==
  \E j \in 1..(i - 1) : TruthyId(merged[j]) /\ merged[j].id = merged[i].id

\* deduped.set(item.id, item) without the has() test: the Map keeps the
\* position of the first occurrence and the value of the last one
DedupedKeepLast(merged) ==
  LET Enters(i) == TruthyId(merged[i]) /\ ~SeenBefore(merged, i)
      Last(i) == CHOOSE j \in i..Len(merged) :
                   /\ TruthyId(merged[j]) /\ merged[j].id = merged[i].id
                   /\ \A k \in (j + 1)..Len(merged) :
                        ~(TruthyId(merged[k]) /\ merged[k].id = merged[i].id)
      at == SelectSeq(Indices(merged), Enters)
  IN  [k \in 1..Len(at) |-> merged[Last(at[k])]]

\* [...deduped.values()] after the forEach: an item enters the Map when its
\* id is truthy and not in the Map yet; the values keep insertion order
Deduped(merged) ==
  LET Enters(i) == TruthyId(merged[i]) /\ ~SeenBefore(merged, i)
  IN  Pick(merged, SelectSeq(Indices(merged), Enters))

KeepsItem(item) == TruthyDateStart(item) /\ TruthyTitle(item)

\* a filter that forgets the title
FilteredByDateOnly(items) == SelectSeq(items, TruthyDateStart)

\* .filter((item) => item.date_start && item.title)
Filtered(items) == SelectSeq(items, KeepsItem)

(***************************************************************************)
(* Bucketizer: the decades useMemo.                                        *)
(***************************************************************************)
\* a decade key that rounds to the nearest ten
DecadeStartRounded(year) == ((year + 5) \div 10) * 10

\* Math.floor(artwork.date_start / 10) * 10
DecadeStart(year) == (year \div 10) * 10

\* the buckets Map after the forEach, as its entries in insertion order: a
\* key enters the Map with the first artwork of its decade, and its array
\* receives the artworks of the decade in the order of the record set
Buckets(items) ==
  LET Keyed(i) == IsNumber(items[i])
      Key(i) == DecadeStart(items[i].date_start)
      Opens(i) == Keyed(i) /\ \A j \in 1..(i - 1) : ~(Keyed(j) /\ Key(j) = Key(i))
      at == SelectSeq(Indices(items), Opens)
      Members(key) ==
        LET Belongs(a) == IsNumber(a) /\ DecadeStart(a.date_start) = key
        IN  SelectSeq(items, Belongs)
  IN  [k \in 1..Len(at) |->
         [startYear |-> Key(at[k]), items |-> Members(Key(at[k]))]]

\* the bucket left in insertion order
Unsorted(items) == items

\* items.sort((a, b) => (a.date_start ?? 0) - (b.date_start ?? 0))
SortByDate(items) ==
  SortBy(items, [i \in 1..Len(items) |-> DateOrZero(items[i])])

\* .sort((a, b) => a.startYear - b.startYear) and .sort(([a], [b]) => a - b)
SortByStart(entries) ==
  SortBy(entries, [i \in 1..Len(entries) |-> entries[i].startYear])

\* ({ label: `${startYear}s`, startYear, artworks: items.sort(...) })
Collection(entry) ==
  [label |-> ToString(entry.startYear) \o "s",
   startYear |-> entry.startYear,
   artworks |-> SortByDate(entry.items)]

Collections(entries) == [k \in 1..Len(entries) |-> Collection(entries[k])]

\* .filter((collection) => collection.artworks.length >= 20)
LargeEnough(collection) == Len(collection.artworks) >= MIN_DECADE_SIZE

\* multi-page variant: map, filter, sort
DecadesMulti(items) ==
  SortByStart(SelectSeq(Collections(Buckets(items)), LargeEnough))

\* single-page variant: sort, map
DecadesSingle(items) == Collections(SortByStart(Buckets(items)))

Decades(v, items) ==
  IF v = "multi" THEN DecadesMulti(items) ELSE DecadesSingle(items)

(***************************************************************************)
(* The artwork endpoint.  The multi-page feed is generated: page p holds   *)
(* feed.n works of the 1920s and feed.n works of the 1890s with the ids    *)
(* the paging gives them (n up to MaxPerPage), and the dirty feed adds     *)
(* records without title or date_start, records repeated on one page and   *)
(* across pages, and a year before the common era.  The single-page feed   *)
(* is any page of at most MaxLen records of SmallRecords.                  *)
(***************************************************************************)
ApiId(p, j) == (p - 1) * PAGE_LIMIT + j

Row1920(p, j) == Artwork(ApiId(p, j), "T", 1920 + ((7 * p + 3 * j) % 10))

Row1890(f, p, j) ==
  IF f.dirty /\ p = TOTAL_PAGES /\ j = 1
  THEN Artwork(ApiId(1, 1), "T-again", 1895)
  ELSE Artwork(ApiId(p, f.n + j), "T", 1890 + ((3 * p + j) % 10))

Extras(p) ==
  CASE p = 1 -> <<Artwork(51, "A", 1923), Artwork(52, "", 1925),
                  Artwork(51, "A-dup", 1923)>>
    [] p = 2 -> <<Artwork(51, "A-late", 1893), Undated(53, "B"),
                  Artwork(54, "Z", 0)>>
    [] p = 3 -> <<Artwork(55, "neg", -5), Untitled(56, 1921)>>
    [] OTHER -> <<>>

GeneratedPage(f, p) ==
  [j \in 1..f.n |-> Row1920(p, j)] \o [j \in 1..f.n |-> Row1890(f, p, j)]
    \o (IF f.dirty THEN Extras(p) ELSE <<>>)

SmallRecords ==
  {Artwork(1, "A", 1923), Artwork(2, "", 1925), Artwork(1, "A-dup", 1923),
   Artwork(2, "B", 1891), Undated(3, "C"), Artwork(3, "D", 1929),
   Artwork(4, "E", 0), Artwork(5, "F", -5)}

SmallPages == UNION {[1..k -> SmallRecords] : k \in 0..MaxLen}

MultiFeeds ==
  [n : 0..MaxPerPage, dirty : {FALSE}, page : {<<>>}]
    \cup [n : {MaxPerPage}, dirty : {TRUE}, page : {<<>>}]

SingleFeeds == [n : {0}, dirty : {FALSE}, page : SmallPages]

\* json.data of the response to the request for page p
ServerPage(v, f, p) == IF v = "multi" THEN GeneratedPage(f, p) ELSE f.page

\* pageNumbers: the requests of one load
PageNumbers(v) == IF v = "multi" THEN 1..TOTAL_PAGES ELSE {1}

(***************************************************************************)
(* State.                                                                  *)
(***************************************************************************)
VARIABLES
  variant,         \* which App component runs
  feed,            \* what the endpoint serves
  responseStatus,  \* per page request: 0 in flight, else response.status
  pages,           \* values of the Promise.all: slot -> page stored, 0 empty
  pc,              \* fetchArtworks: "await" suspended, "done" settled
  artworks,        \* useState<Artwork[]>([])
  decades,         \* useMemo(..., [artworks])
  selectedIndex,   \* useState(0)
  isLoading,       \* useState(true)
  error,           \* useState<string | null>(null)
  clampPending     \* the [decades] effect is scheduled

vars == <<variant, feed, responseStatus, pages, pc, artworks, decades,
          selectedIndex, isLoading, error, clampPending>>

\* null
NoError == <<>>

\* 'Unexpected error loading data'
FallbackMessage(status) == <<"Unexpected error loading data">>

\* `Unable to load artwork data (HTTP ${response.status})`
ErrorMessage(status) ==
  <<"Unable to load artwork data (HTTP ", ToString(status), ")">>

\* response.ok
Ok(status) == status \in 200..299

InFlight == {p \in PageNumbers(variant) : responseStatus[p] = 0}

Failed == {p \in PageNumbers(variant) :
             responseStatus[p] # 0 /\ ~Ok(responseStatus[p])}

Init ==
  /\ variant \in Variants
  /\ feed \in (IF variant = "multi" THEN MultiFeeds ELSE SingleFeeds)
  /\ responseStatus = [p \in PageNumbers(variant) |-> 0]
  /\ pages = [p \in PageNumbers(variant) |-> 0]
  /\ pc = "await"
  /\ artworks = <<>>
  /\ decades = <<>>
  /\ selectedIndex = 0
  /\ isLoading = TRUE
  /\ error = NoError
  /\ clampPending = FALSE

(***************************************************************************)
(* fetchArtworks.                                                          *)
(***************************************************************************)
\* Promise.all files the value of the p-th promise under index p
StoreResult(slots, p) == [slots EXCEPT ![p] = p]

\* a join that resolves with the first page that arrives
AnyFulfilled(status) == \E p \in DOMAIN status : Ok(status[p])

\* Promise.all resolves when every page promise is fulfilled
AllFulfilled(status) == \A p \in DOMAIN status : Ok(status[p])

Results(v, f, slots) ==
  [i \in 1..Cardinality(DOMAIN slots) |->
     IF slots[i] = 0 THEN <<>> ELSE ServerPage(v, f, slots[i])]

\* the record set the try block stores
Loaded(v, results) ==
  IF v = "multi" THEN Filtered(Deduped(Flat(results)))
  ELSE Filtered(results[1])

\* a finally block that leaves the flag alone
FinallyKeepsLoading == isLoading' = isLoading

\* finally { setIsLoading(false) }
Finally == isLoading' = FALSE

\* the continuation of the await when the join resolves: the rest of the
\* try block, the finally block, and the render that follows
Resolved ==
  /\ artworks' = Loaded(variant, Results(variant, feed, pages'))
  /\ decades' = Decades(variant, artworks')
  /\ clampPending' = TRUE
  /\ Finally
  /\ pc' = "done"
  /\ UNCHANGED <<error, selectedIndex>>

\* the continuation of the await when the join rejects: catch and finally
Rejected(status) ==
  /\ error' = ErrorMessage(status)
  /\ Finally
  /\ pc' = "done"
  /\ UNCHANGED <<artworks, decades, selectedIndex, clampPending>>

Ignored == UNCHANGED <<pc, artworks, decades, selectedIndex, isLoading,
                       error, clampPending>>

\* a page request is answered with an ok response
PageFulfilled(p) ==
  /\ responseStatus[p] = 0
  /\ responseStatus' = [responseStatus EXCEPT ![p] = 200]
  /\ pages' = StoreResult(pages, p)
  /\ IF pc = "await" /\ AllFulfilled(responseStatus') THEN Resolved ELSE Ignored
  /\ UNCHANGED <<variant, feed>>

\* a page request is answered with a status that is not ok: the page promise
\* rejects, and the join rejects with it unless it has settled already
PageRejected(p, status) ==
  /\ responseStatus[p] = 0
  /\ Cardinality(Failed) < MaxFailures
  /\ responseStatus' = [responseStatus EXCEPT ![p] = status]
  /\ IF pc = "await" THEN Rejected(status) ELSE Ignored
  /\ UNCHANGED <<variant, feed, pages>>

(***************************************************************************)
(* The clamp effect and the timeline slider.                               *)
(***************************************************************************)
\* an effect that always jumps to the last decade
ClampToLast(current, length) == length - 1

\* Math.min(current, decades.length - 1)
Clamp(current, length) == Min(current, length - 1)

ClampEffect ==
  /\ clampPending
  /\ clampPending' = FALSE
  /\ selectedIndex' = IF Len(decades) = 0 THEN selectedIndex
                      ELSE Clamp(selectedIndex, Len(decades))
  /\ UNCHANGED <<variant, feed, responseStatus, pages, pc, artworks, decades,
                 isLoading, error>>

\* !isLoading && !error && decades.length > 0
ExplorerRendered == ~isLoading /\ error = NoError /\ Len(decades) > 0

\* a slider whose max is the number of decades
SliderMaxLength(length) == length

\* max={decades.length - 1}
SliderMax(length) == length - 1

\* onChange={(event) => setSelectedIndex(Number(event.target.value))}
SliderChange(value) ==
  /\ ExplorerRendered
  /\ value \in 0..SliderMax(Len(decades))
  /\ selectedIndex' = value
  /\ UNCHANGED <<variant, feed, responseStatus, pages, pc, artworks, decades,
                 isLoading, error, clampPending>>

Next ==
  \/ \E p \in PageNumbers(variant) : PageFulfilled(p)
  \/ \E p \in PageNumbers(variant), status \in FailStatuses : PageRejected(p, status)
  \/ ClampEffect
  \/ \E value \in 0..Len(decades) : SliderChange(value)

Spec == Init /\ [][Next]_vars

(***************************************************************************)
(* Properties.                                                             *)
(***************************************************************************)
\* floor(year / 10) * 10, written with the remainder
Floor10(year) == year - (year % 10)

Count(s, r) == Cardinality({i \in 1..Len(s) : s[i] = r})

\* the decade buckets that hold record r
Holders(r) ==
  {k \in 1..Len(decades) :
     \E m \in 1..Len(decades[k].artworks) : decades[k].artworks[m] = r}

\* how many stored records share the decade of record r
DecadeSize(r) ==
  Cardinality({i \in 1..Len(artworks) :
                 Floor10(artworks[i].date_start) = Floor10(r.date_start)})

\* the least size of a decade the variant presents
Threshold == IF variant = "multi" THEN MIN_DECADE_SIZE ELSE 1

LoadSucceeded == pc = "done" /\ error = NoError

\* the pages of the feed in page-number order, whatever the arrival order
RECURSIVE FeedFrom(_)
FeedFrom(p) ==
  IF p \notin PageNumbers(variant) THEN <<>>
  ELSE ServerPage(variant, feed, p) \o FeedFrom(p + 1)

FeedInPageOrder == FeedFrom(1)

\* C1 as stated: every stored record is in exactly one decade bucket, and
\* that bucket's startYear is floor(date_start / 10) * 10.
C1_EveryRecordInOneBucket ==
  \A i \in 1..Len(artworks) :
    /\ Cardinality(Holders(artworks[i])) = 1
    /\ \A k \in Holders(artworks[i]) :
         decades[k].startYear = Floor10(artworks[i].date_start)

\* C1 (amended): every stored record is in at most one decade bucket; a
\* bucket that holds it has startYear floor(date_start / 10) * 10 and holds
\* it as often as the record set does; the record is in a bucket exactly
\* when its decade has at least 20 stored records in the multi-page variant,
\* and always in the single-page variant; a bucket holds stored records only.
C1_BucketOfItsDecade ==
  /\ \A i \in 1..Len(artworks) :
       /\ Cardinality(Holders(artworks[i])) <= 1
       /\ \A k \in Holders(artworks[i]) :
            /\ decades[k].startYear = Floor10(artworks[i].date_start)
            /\ Count(decades[k].artworks, artworks[i]) = Count(artworks, artworks[i])
       /\ Holders(artworks[i]) # {} <=> DecadeSize(artworks[i]) >= Threshold
  /\ \A k \in 1..Len(decades) : \A m \in 1..Len(decades[k].artworks) :
       Count(artworks, decades[k].artworks[m]) > 0

\* a load that presents one decade and drops a smaller one
C1_Witness ==
  /\ LoadSucceeded
  /\ \E i, j \in 1..Len(artworks) :
       Holders(artworks[i]) # {} /\ Holders(artworks[j]) = {}

\* C2: the decade list is strictly ascending by startYear, and inside every
\* bucket the records are in non-decreasing order of date_start.
C2_Sorted ==
  /\ \A k \in 1..(Len(decades) - 1) :
       decades[k].startYear < decades[k + 1].startYear
  /\ \A k \in 1..Len(decades) : \A m \in 1..(Len(decades[k].artworks) - 1) :
       decades[k].artworks[m].date_start <= decades[k].artworks[m + 1].date_start

\* a record set that arrives with a later decade first and, inside a decade,
\* a later year first
C2_Witness ==
  /\ Len(decades) >= 2
  /\ \E i, j \in 1..Len(artworks) :
       /\ i < j
       /\ Holders(artworks[i]) # {} /\ Holders(artworks[j]) # {}
       /\ Floor10(artworks[i].date_start) > Floor10(artworks[j].date_start)
  /\ \E i, j \in 1..Len(artworks) :
       /\ i < j
       /\ Holders(artworks[i]) # {}
       /\ Floor10(artworks[i].date_start) = Floor10(artworks[j].date_start)
       /\ artworks[i].date_start > artworks[j].date_start

\* C3 as stated: after a successful load no two stored records have the same
\* id.
C3_NoSharedId ==
  LoadSucceeded =>
    \A i, j \in 1..Len(artworks) : artworks[i].id = artworks[j].id => i = j

\* C3 (amended): after a successful load of the multi-page variant no two
\* stored records have the same id, and every stored record is the first
\* record of its id in merge order (page 1, page 2, ...).
C3_FirstOccurrenceMulti ==
  (variant = "multi" /\ LoadSucceeded) =>
    /\ \A i, j \in 1..Len(artworks) : artworks[i].id = artworks[j].id => i = j
    /\ \A i \in 1..Len(artworks) :
         \E at \in 1..Len(FeedInPageOrder) :
           /\ FeedInPageOrder[at] = artworks[i]
           /\ \A before \in 1..(at - 1) :
                FeedInPageOrder[before].id # artworks[i].id

\* a multi-page load whose feed repeats an id, with the first one stored
C3_Witness ==
  /\ variant = "multi" /\ LoadSucceeded
  /\ \E i \in 1..Len(artworks) :
       \E at \in 1..Len(FeedInPageOrder) :
         /\ FeedInPageOrder[at].id = artworks[i].id
         /\ FeedInPageOrder[at] # artworks[i]

\* C4: every stored record, and every record of a decade bucket, has a
\* non-empty title and a non-zero numeric date_start.
C4_OnlyValidStored ==
  LET Valid(r) ==
        /\ "title" \in DOMAIN r /\ r.title # ""
        /\ "date_start" \in DOMAIN r /\ r.date_start \in Int /\ r.date_start # 0
  IN  /\ \A i \in 1..Len(artworks) : Valid(artworks[i])
      /\ \A k \in 1..Len(decades) : \A m \in 1..Len(decades[k].artworks) :
           Valid(decades[k].artworks[m])

\* a load that stored records from a feed that has a record without title
\* and a record without date_start
C4_Witness ==
  /\ LoadSucceeded /\ artworks # <<>>
  /\ \E at \in 1..Len(FeedInPageOrder) :
       "title" \notin DOMAIN FeedInPageOrder[at] \/ FeedInPageOrder[at].title = ""
  /\ \E at \in 1..Len(FeedInPageOrder) :
       "date_start" \notin DOMAIN FeedInPageOrder[at]

C7_Exclusive ==
  /\ pc = "await" => (isLoading /\ error = NoError /\ artworks = <<>>)
  /\ pc = "done" =>
       /\ ~isLoading
       /\ \/ error # NoError /\ artworks = <<>> /\ Failed # {}
          \/ error = NoError /\ Failed = {} /\ InFlight = {}
  /\ ~(isLoading /\ error # NoError)
  /\ ~(error # NoError /\ artworks # <<>>)

\* a load that settled with records stored
C7_Witness == pc = "done" /\ ~isLoading /\ error = NoError /\ artworks # <<>>

\* C8 as stated: the multi-page load does not settle while a page request
\* is in flight.
C8_SuspendedUntilAllComplete ==
  (variant = "multi" /\ InFlight # {}) =>
    (pc = "await" /\ isLoading /\ error = NoError /\ artworks = <<>>)

\* C8 (amended): the multi-page load is suspended (loading true, no error,
\* nothing stored) exactly while no page request has failed and one is in
\* flight; it settles with the record set only when all N requests were
\* served, and with the error as soon as one request fails, also while
\* sibling requests are in flight.
C8_JoinFailsFast ==
  variant = "multi" =>
    /\ pc = "await" <=> (Failed = {} /\ InFlight # {})
    /\ pc = "await" => (isLoading /\ error = NoError /\ artworks = <<>>)
    /\ Failed # {} => error # NoError
    /\ (pc = "done" /\ error = NoError) => InFlight = {}

\* the load settled with an error while sibling requests are in flight
C8_Witness ==
  variant = "multi" /\ pc = "done" /\ error # NoError /\ InFlight # {}

\* C9: after a successful multi-page load the record set is the feed in
\* page-number order, reduced to the first record of each id and then to the
\* records with title and date_start, for every arrival order.
C9_PageOrder ==
  (variant = "multi" /\ LoadSucceeded) =>
    LET merged == FeedInPageOrder
        First(at) == \A before \in 1..(at - 1) : merged[before].id # merged[at].id
        Valid(at) ==
          /\ "title" \in DOMAIN merged[at] /\ merged[at].title # ""
          /\ "date_start" \in DOMAIN merged[at] /\ merged[at].date_start # 0
        Stays(at) == First(at) /\ Valid(at)
        kept == SelectSeq([at \in 1..Len(merged) |-> at], Stays)
    IN  artworks = [k \in 1..Len(kept) |-> merged[kept[k]]]

\* a multi-page load of the feed that repeats ids across pages
C9_Witness ==
  variant = "multi" /\ LoadSucceeded /\ feed.dirty /\ artworks # <<>>

\* C10: whenever the explorer section is rendered, selectedIndex is an
\* index of the decade list, also before the clamp effect has run.
C10_ActiveDecadeDefined ==
  ExplorerRendered => (0 <= selectedIndex /\ selectedIndex <= Len(decades) - 1)

\* the explorer is rendered with the last of several decades selected
C10_Witness ==
  ExplorerRendered /\ Len(decades) >= 2 /\ selectedIndex = Len(decades) - 1

====
